---------------------------- MODULE Spec2Model ----------------------------
(***************************************************************************)
(* A model of the asynchronous time-to-live cell (class AsyncTtl,          *)
(* utils/ttl), of the keyed thread cache built on it (class Mailbox), of   *)
(* the deferred parse holder (class DefferedParse) inside a MessageBody,   *)
(* and of the one-shot authorization listener (getOAuthClient).            *)
(*                                                                         *)
(* Spec        one AsyncTtl cell, its public operations, the clock and the *)
(*             three stages in which its fetch promise chain settles.      *)
(* MailboxSpec a Mailbox: the LRU map from thread id to AsyncTtl cell and  *)
(*             the get_thread / get_full operations on it.                 *)
(* ThrowSpec   the cell with a validator that throws on some inputs.       *)
(* LruSpec     the Mailbox under get_thread calls alone, with a cache of   *)
(*             two threads.                                                *)
(* LiveSpec    Spec with every fetch settling and every callback run.      *)
(* PromotionSpec  the Mailbox with a summary stored in its cache.          *)
(* CallbackSpec   the cell with get_data calls that pass a fetch_callback. *)
(* ParseSpec   a MessageBody: its two parts assigned and read.             *)
(* OAuthSpec   one call of getOAuthClient: the listener, its requests and  *)
(*             its shutdown timer.                                         *)
(***************************************************************************)
EXTENDS Integers, Sequences, FiniteSets, Bags, TLC

VARIABLES
    params,     \* the AsyncTtlParams the cell was constructed with
    cell,       \* the AsyncTtl object's fields
    now,        \* Date.now()
    fetches,    \* the invocations of the fetch closure whose promise chain has not finished
    op,         \* the last operation: its name, argument and result
    invalidated \* invalidate() was called and neither get_data nor update nor
                \* refresh_expiry has been called since

VARIABLES
    threads,    \* Mailbox.threads: the AsyncTtl objects in the LRU cache, the least
                \* recently used first, each stored under the thread id it fetches
    detached,   \* the bag of AsyncTtl objects that are not in the cache and that a
                \* promise chain or a suspended get_full call still refers to
    max         \* the LRUCache's max option: 100 in the source, scaled here to
                \* Capacity or LruCapacity, the specification choosing which

VARIABLES
    body,       \* a MessageBody: its two DefferedParse objects, _text and _html
    parse_op    \* for each of the two, the last operation on it and its result

VARIABLES
    oauth       \* one call of getOAuthClient: its server, its timer, its promise and
                \* the request handlers that have not finished

cellVars == <<params, cell, now, fetches, op, invalidated>>

parseVars == <<body, parse_op>>

oauthVars == <<oauth>>

mailboxVars == <<threads, detached, max>>

vars == <<params, cell, now, fetches, op, invalidated, threads, detached, max,
         body, parse_op, oauth>>

(***************************************************************************)
(* Bounds of the model.                                                    *)
(***************************************************************************)
MaxWaiters == 2     \* get_data promises waiting on one in-flight promise
MaxInFlight == 2    \* promise chains of the fetch closure alive at once
MaxTicks == 3       \* clock ticks in one behaviour
MaxCalls == 2       \* get_thread and get_full calls of a Mailbox not yet settled
MaxExpiries == 1    \* times the Mailbox's clock passes the threads' time to live
MaxCallbacks == 2   \* fetch_callbacks attached to one in-flight promise
MaxRequests == 2    \* requests one authorization listener is handling at a time

(***************************************************************************)
(* Values.  undefined is JavaScript's undefined; the values of T are small *)
(* naturals, 0 being falsy.  Durations are far smaller than Date.now():    *)
(* the clock starts at Epoch.                                              *)
(***************************************************************************)
Undefined == -1
Values == {0, 1, 2}
Epoch == 10
MaxAges == {2}
EarlyRefreshes == {Undefined, 1}
StaleGraces == {Undefined, 1}
PreLoads == {Undefined, 0, 1}

\* Boolean(x): the default validator, and the test `if (x)` on an optional number.
Truthy(x) == x # Undefined /\ x # 0

\* this._data_valid(data), the validator being Boolean unless one is given.
data_valid(c, v) == Truthy(v)

(***************************************************************************)
(* The pure part of AsyncTtl: each operator maps the cell before a method  *)
(* to the cell after it, at clock reading t.                               *)
(***************************************************************************)
refresh_expiry(c, t) == [c EXCEPT !.expiry = t + c.max_age]

\* invalidate that deletes the data as well (a variant of invalidate).
invalidate_deleting(c) == [c EXCEPT !.expiry = 0, !.data = Undefined]

invalidate(c) == [c EXCEPT !.expiry = 0]

update_ret(c, v) == data_valid(c, v)

\* update without the validity test (a variant of update).
update_unvalidated(c, v, t) == refresh_expiry([c EXCEPT !.data = v], t)

\* update that stores the value and forgets refresh_expiry() (a variant of update).
update_keeps_expiry(c, v, t) == IF data_valid(c, v) THEN [c EXCEPT !.data = v] ELSE c

update(c, v, t) ==
    IF data_valid(c, v)
    THEN refresh_expiry([c EXCEPT !.data = v], t)
    ELSE c

loaded(c) == c.expiry # Undefined

\* _status with the last comparison strict, now < expiry (a variant of status).
status_strict(c, t) ==
    IF c.expiry = Undefined \/ ~data_valid(c, c.data)
    THEN [fresh |-> FALSE, fetch |-> TRUE]
    ELSE IF Truthy(c.early_refresh)
            /\ c.early_refresh <= t /\ t <= c.expiry
    THEN [fresh |-> TRUE, fetch |-> TRUE]
    ELSE [fresh |-> t < c.expiry, fetch |-> ~(t < c.expiry)]

status(c, t) ==
    IF c.expiry = Undefined \/ ~data_valid(c, c.data)
    THEN [fresh |-> FALSE, fetch |-> TRUE]
    ELSE IF Truthy(c.stale_while_revalidate)
            /\ c.expiry + c.stale_while_revalidate < t
    THEN [fresh |-> FALSE, fetch |-> TRUE]
    ELSE IF Truthy(c.stale_while_revalidate)
            /\ c.expiry < t /\ t <= c.expiry + c.stale_while_revalidate
    THEN [fresh |-> TRUE, fetch |-> TRUE]
    ELSE IF Truthy(c.early_refresh)
            /\ c.early_refresh <= t /\ t <= c.expiry
    THEN [fresh |-> TRUE, fetch |-> TRUE]
    ELSE [fresh |-> t <= c.expiry, fetch |-> ~(t <= c.expiry)]

\* _do_fetch: whether it invokes the fetch closure (this._fetching === undefined).
\* _do_fetch without the test of this._fetching (a variant of do_fetch_starts).
do_fetch_starts_always(c) == TRUE

do_fetch_starts(c) == c.fetching = Undefined

\* _do_fetch: the cell after it, id naming the promise chain a new invocation creates.
do_fetch(c, id) ==
    IF do_fetch_starts(c) THEN [c EXCEPT !.fetching = id] ELSE c

\* A fetch closure's invocation: the closure's promise, the .then and the .finally,
\* the get_data promises resolved with the chain's promise, the fetch_callbacks that
\* get_data attached to the chain's promise with promise.then(fetch_callback), and
\* whether the .then callback's update stored the result.
NewFetch(id) ==
    [id |-> id, state |-> "pending", result |-> Undefined, value |-> Undefined,
     waiters |-> 0, callbacks |-> 0, stored |-> FALSE]

Ids(fs) == {f.id : f \in fs}

FreshId(fs) == CHOOSE i \in 1..(Cardinality(fs) + 1) : i \notin Ids(fs)

\* The fields set by the constructor before the pre_load test.
constructed(p) ==
    [max_age |-> p.max_age,
     early_refresh |-> p.early_refresh,
     stale_while_revalidate |-> Undefined,
     data |-> Undefined,
     expiry |-> Undefined,
     fetching |-> Undefined]

\* The pre_load test without the call of update (a variant of constructor_fetches).
constructor_fetches_unvalidated(p) == p.pre_load = Undefined

constructor_fetches(p) ==
    p.pre_load = Undefined \/ ~update_ret(constructed(p), p.pre_load)

constructor(p, t) ==
    IF constructor_fetches(p)
    THEN do_fetch(update(constructed(p), p.pre_load, t), 1)
    ELSE update(constructed(p), p.pre_load, t)

(***************************************************************************)
(* The Mailbox's constants and its state after construction.               *)
(***************************************************************************)
Capacity == 1       \* LRUCache max as scaled in MailboxSpec
LruCapacity == 2    \* LRUCache max as scaled in LruSpec
Keys == 1..(max + 1)    \* thread ids: one more than the cache holds
thread_ttl == 2     \* 15 minutes, in clock ticks of the model

\* ThreadType: the kind of thread a cell's data is.
Full == 1
Slim == 2

isFull(thread) == thread = Full

\* The parameters new_full_ttl gives to AsyncTtl: max_age and the fetch closure.
ThreadParams ==
    [max_age |-> thread_ttl, early_refresh |-> Undefined,
     stale_grace |-> Undefined, pre_load |-> Undefined]

MailboxEmpty ==
    /\ threads = <<>>
    /\ detached = EmptyBag
    /\ max = Capacity

(***************************************************************************)
(* DefferedParse (utils/deffered_parse) and the MessageBody that holds two *)
(* of them.  _parsed is undefined, false or true.                          *)
(***************************************************************************)
Parts == {"text", "html"}

\* The raw forms: base64 strings.
Raws == {1, 2}

\* The parsers MessageBody passes: each decodes `raw ?? ""`, the text one to a
\* string and the html one to a Document; 0 and 5 are what they make of "".
parser(part, raw) ==
    IF part = "text"
    THEN (IF raw = Undefined THEN 0 ELSE raw + 10)
    ELSE (IF raw = Undefined THEN 5 ELSE raw + 20)

\* The fields of a DefferedParse before the constructor's test of raw.
Unassigned == [_raw |-> Undefined, _value |-> Undefined, _parsed |-> "undefined"]

\* set value(raw)
set_value(d, raw) == [d EXCEPT !._parsed = "false", !._raw = raw]

\* new DefferedParse(parser, raw)
DefferedParse(raw) == IF raw # Undefined THEN set_value(Unassigned, raw) ELSE Unassigned

\* get value(): whether it calls the parser, and the object after it.
\* A getter that parses on every read (a variant of get_parses).
get_parses_always(d) == TRUE

get_parses(d) == d._parsed # "true"

get_value(d, part) ==
    IF get_parses(d)
    THEN [d EXCEPT !._parsed = "true", !._value = parser(part, d._raw), !._raw = Undefined]
    ELSE d

has_value(d) == d._parsed # "undefined"

\* new MessageBody(raw_text, raw_html)
MessageBody(raw_text, raw_html) ==
    [text |-> DefferedParse(raw_text), html |-> DefferedParse(raw_html)]

\* The last operation on a DefferedParse: arg is the raw form given, ret the value
\* returned, invoked whether the parser was called.
ParseOp(name, arg, ret, invoked) ==
    [name |-> name, arg |-> arg, ret |-> ret, invoked |-> invoked]

\* new MessageBody(), as MailMessage constructs it.
NoMessageBody ==
    /\ body = MessageBody(Undefined, Undefined)
    /\ parse_op = [p \in Parts |-> ParseOp("new", Undefined, Undefined, FALSE)]

BodyInit ==
    \E raw_text \in Raws \cup {Undefined}, raw_html \in Raws \cup {Undefined} :
        /\ body = MessageBody(raw_text, raw_html)
        /\ parse_op = [p \in Parts |->
                          ParseOp("new", IF p = "text" THEN raw_text ELSE raw_html,
                                  Undefined, FALSE)]

\* body.text = raw, body.html = raw
SetValue ==
    \E p \in Parts, raw \in Raws :
        /\ body' = [body EXCEPT ![p] = set_value(@, raw)]
        /\ parse_op' = [parse_op EXCEPT ![p] = ParseOp("set", raw, Undefined, FALSE)]
        /\ UNCHANGED <<cellVars, mailboxVars, oauthVars>>

\* body.text, body.html
GetValue ==
    \E p \in Parts :
        /\ body' = [body EXCEPT ![p] = get_value(@, p)]
        /\ parse_op' = [parse_op EXCEPT ![p] =
                            ParseOp("get", Undefined, get_value(body[p], p)._value,
                                    get_parses(body[p]))]
        /\ UNCHANGED <<cellVars, mailboxVars, oauthVars>>

(***************************************************************************)
(* getOAuthClient (gmail/oauth): a server made by makeOneShotServer, the   *)
(* shutdown timer and the promise returned.  server is "starting" until    *)
(* the callback of listen has run.  handlers is the bag of the request     *)
(* handlers that have not finished, each at its stage: "exchanging" while  *)
(* the request callback awaits getToken, "returned" when the callback has  *)
(* returned its message, "threw" when it has rejected.  reason is the     *)
(* error the promise was rejected with, clock the time since the timer was *)
(* set.                                                                    *)
(***************************************************************************)
\* The delay of the shutdown timer (30 seconds), in ticks.
ShutdownDelay == 2

\* What a request carries: no url, an error parameter, neither an error nor a
\* code, or a code.
Requests == {"no_url", "error", "no_code", "code"}

\* resolve(client) and reject(err): the first call settles the promise, later
\* calls change nothing.
resolve(o) == IF o.promise = "pending" THEN [o EXCEPT !.promise = "resolved"] ELSE o

reject(o, err) ==
    IF o.promise = "pending" THEN [o EXCEPT !.promise = "rejected", !.reason = err] ELSE o

\* The error the request callback rejects the promise with.
request_error(r) ==
    CASE r = "no_url" -> "No callback URL provided"
      [] r = "error" -> "error"
      [] r = "no_code" -> "No authentication code provided"

\* clearTimeout(shutdownTimer)
clearTimeout(o) == IF o.timer = "armed" THEN [o EXCEPT !.timer = "cleared"] ELSE o

\* server.destroy()
destroy(o) == [o EXCEPT !.server = "destroyed"]

\* getOAuthClient has returned its promise: listen has been called.
OAuthStarted ==
    [server |-> "starting", timer |-> "unset", promise |-> "pending", reason |-> "",
     handlers |-> EmptyBag, clock |-> 0]

NoOAuth == oauth = OAuthStarted

\* called: the number of fetch_callbacks invoked in the step.
Op(name, arg, ret, mode, value) ==
    [name |-> name, arg |-> arg, ret |-> ret, mode |-> mode, value |-> value,
     called |-> 0]

Params ==
    [max_age : MaxAges, early_refresh : EarlyRefreshes,
     stale_grace : StaleGraces, pre_load : PreLoads]

Init ==
    /\ params \in Params
    /\ now = Epoch
    /\ cell = constructor(params, now)
    /\ fetches = IF constructor_fetches(params) THEN {NewFetch(1)} ELSE {}
    /\ op = Op("constructor", params.pre_load, constructor_fetches(params),
               "", Undefined)
    /\ invalidated = FALSE
    /\ NoMessageBody
    /\ NoOAuth
    /\ MailboxEmpty

(***************************************************************************)
(* get_data: the status is read, a fetch is started or joined when one is  *)
(* warranted, and the returned promise is resolved with the in-flight      *)
(* promise (not fresh: "blocked") or with this._data (fresh: "cached").    *)
(* op.arg is the promise chain the call started or joined (0: none),       *)
(* op.ret whether it invoked the fetch closure.                            *)
(***************************************************************************)
\* get_data that resolves with the fetch's promise whenever it fetches (a variant of
\* get_data_mode).
get_data_mode_blocking(s) == IF s.fetch THEN "blocked" ELSE "cached"

get_data_mode(s) == IF s.fetch /\ ~s.fresh THEN "blocked" ELSE "cached"

\* get_data(fetch_callback), fetch_callback saying whether one is given: with
\* `fetch` true it is attached to the promise _do_fetch returns.
get_data(fetch_callback) ==
    LET s == status(cell, now)
        starts == s.fetch /\ do_fetch_starts(cell)
        after == IF s.fetch THEN do_fetch(cell, FreshId(fetches)) ELSE cell
        started == IF starts THEN fetches \cup {NewFetch(FreshId(fetches))} ELSE fetches
        mode == get_data_mode(s)
        attached == {IF f.id = after.fetching /\ s.fetch /\ fetch_callback
                     THEN [f EXCEPT !.callbacks = @ + 1] ELSE f : f \in started}
    IN /\ starts => Cardinality(fetches) < MaxInFlight
       /\ mode = "blocked" =>
              \A f \in started : f.id = after.fetching => f.waiters < MaxWaiters
       /\ (s.fetch /\ fetch_callback) =>
              \A f \in started : f.id = after.fetching => f.callbacks < MaxCallbacks
       /\ cell' = after
       /\ fetches' = IF mode = "blocked"
                     THEN {IF f.id = after.fetching
                           THEN [f EXCEPT !.waiters = @ + 1] ELSE f : f \in attached}
                     ELSE attached
       /\ op' = Op("get_data", IF s.fetch THEN after.fetching ELSE 0, starts, mode,
                   IF mode = "cached" THEN cell.data ELSE Undefined)
       /\ invalidated' = FALSE
       /\ UNCHANGED <<params, now>> /\ UNCHANGED <<mailboxVars, parseVars, oauthVars>>

\* The `data` getter, and get_data() without a callback.
GetData == get_data(FALSE)

GetDataCallback == get_data(TRUE)

Update ==
    \E v \in Values :
        /\ cell' = update(cell, v, now)
        /\ op' = Op("update", v, update_ret(cell, v), "", Undefined)
        /\ invalidated' = (invalidated /\ ~update_ret(cell, v))
        /\ UNCHANGED <<params, now, fetches>> /\ UNCHANGED <<mailboxVars, parseVars, oauthVars>>

RefreshExpiry ==
    /\ cell' = refresh_expiry(cell, now)
    /\ op' = Op("refresh_expiry", Undefined, FALSE, "", Undefined)
    /\ invalidated' = FALSE
    /\ UNCHANGED <<params, now, fetches>> /\ UNCHANGED <<mailboxVars, parseVars, oauthVars>>

Invalidate ==
    /\ cell' = invalidate(cell)
    /\ op' = Op("invalidate", Undefined, FALSE, "", Undefined)
    /\ invalidated' = TRUE
    /\ UNCHANGED <<params, now, fetches>> /\ UNCHANGED <<mailboxVars, parseVars, oauthVars>>

Tick ==
    /\ now < Epoch + MaxTicks
    /\ now' = now + 1
    /\ op' = Op("tick", Undefined, FALSE, "", Undefined)
    /\ UNCHANGED <<params, cell, fetches, invalidated>> /\ UNCHANGED <<mailboxVars, parseVars, oauthVars>>

(***************************************************************************)
(* The fetch promise chain  this._fetch().then(..).finally(..):            *)
(*   FetchResolve  the closure's promise fulfils with a value;             *)
(*   FetchReject   the closure's promise rejects;                          *)
(*   FetchThen     the .then callback: update(result), return this._data;  *)
(*   FetchFinally  the .finally callback clears _fetching, and the chain's *)
(*                 promise settles every get_data promise resolved with it *)
(*                 (op.arg of them, op.ret: fulfilled, op.value: with it). *)
(***************************************************************************)
\* A .then callback that returns the fetched result instead of this._data (a variant
\* of then_value).
then_result(c, v, t) == v

then_value(c, v, t) == update(c, v, t).data

FetchResolve ==
    \E f \in fetches, v \in Values :
        /\ f.state = "pending"
        /\ fetches' = (fetches \ {f}) \cup {[f EXCEPT !.state = "fulfilled", !.result = v]}
        /\ op' = Op("fetch_resolve", v, FALSE, "", Undefined)
        /\ UNCHANGED <<params, cell, now, invalidated>> /\ UNCHANGED <<mailboxVars, parseVars, oauthVars>>

FetchReject ==
    \E f \in fetches :
        /\ f.state = "pending"
        /\ fetches' = (fetches \ {f}) \cup {[f EXCEPT !.state = "rejected"]}
        /\ op' = Op("fetch_reject", Undefined, FALSE, "", Undefined)
        /\ UNCHANGED <<params, cell, now, invalidated>> /\ UNCHANGED <<mailboxVars, parseVars, oauthVars>>

FetchThen ==
    \E f \in fetches :
        /\ f.state = "fulfilled"
        /\ cell' = update(cell, f.result, now)
        /\ fetches' = (fetches \ {f}) \cup
                          {[f EXCEPT !.state = "updated", !.result = Undefined,
                                     !.value = then_value(cell, f.result, now),
                                     !.stored = update_ret(cell, f.result)]}
        /\ op' = Op("fetch_then", f.result, update_ret(cell, f.result), "", Undefined)
        /\ UNCHANGED <<params, now, invalidated>> /\ UNCHANGED <<mailboxVars, parseVars, oauthVars>>

\* A .finally callback that leaves _fetching set (a variant of finally_clears).
finally_keeps(c) == c

finally_clears(c) == [c EXCEPT !.fetching = Undefined]

\* The fetch_callbacks invoked when the chain's promise settles: promise.then(
\* fetch_callback) runs each of them once, with the chain's value, when the promise
\* is fulfilled, and none when it is rejected.
callbacks_invoked(f) == IF f.state = "updated" THEN f.callbacks ELSE 0

FetchFinally ==
    \E f \in fetches :
        /\ f.state \in {"updated", "rejected"}
        /\ cell' = finally_clears(cell)
        /\ fetches' = fetches \ {f}
        /\ op' = [Op("fetch_finally", f.waiters, f.state = "updated", "", f.value)
                     EXCEPT !.called = callbacks_invoked(f)]
        /\ UNCHANGED <<params, now, invalidated>> /\ UNCHANGED <<mailboxVars, parseVars, oauthVars>>

Next ==
    \/ GetData
    \/ Update
    \/ RefreshExpiry
    \/ Invalidate
    \/ Tick
    \/ FetchResolve
    \/ FetchReject
    \/ FetchThen
    \/ FetchFinally

Spec == Init /\ [][Next]_vars

(***************************************************************************)
(* The cell under fair scheduling: every invocation of the fetch closure   *)
(* settles (the closure's promise is fulfilled or rejected), and the       *)
(* callbacks of a settled promise are run, the event loop draining its     *)
(* microtask queue.                                                        *)
(***************************************************************************)
LiveSpec ==
    /\ Init
    /\ [][Next]_vars
    /\ WF_vars(FetchResolve \/ FetchReject)
    /\ WF_vars(FetchThen)
    /\ WF_vars(FetchFinally)

(***************************************************************************)
(* The cell with callers that pass a fetch_callback to get_data.           *)
(***************************************************************************)
CallbackNext ==
    \/ GetDataCallback
    \/ GetData
    \/ Update
    \/ RefreshExpiry
    \/ Invalidate
    \/ Tick
    \/ FetchResolve
    \/ FetchReject
    \/ FetchThen
    \/ FetchFinally

CallbackSpec == Init /\ [][CallbackNext]_vars

(***************************************************************************)
(* A cell constructed with a validator that throws on some inputs, such as *)
(* (d) => d.items.length > 0, which throws on undefined and on data        *)
(* without the member and answers like Boolean otherwise.  An exception    *)
(* in the constructor or in update() reaches the caller ("threw"); one in  *)
(* get_data's executor is caught and rejects the returned promise; one in  *)
(* the .then callback rejects the promise chain.                           *)
(***************************************************************************)
Throwers == {Undefined, 2}

validator_throws(v) == v \in Throwers

\* _status calls the validator on this._data once an expiry is set.
status_throws(c) == c.expiry # Undefined /\ validator_throws(c.data)

\* The constructor calls update(pre_load) unless pre_load == undefined.
constructor_throws(p) == p.pre_load # Undefined /\ validator_throws(p.pre_load)

ThrowParams ==
    [max_age : MaxAges, early_refresh : EarlyRefreshes,
     stale_grace : {Undefined}, pre_load : PreLoads \cup Throwers]

ThrowInit ==
    /\ params \in ThrowParams
    /\ now = Epoch
    /\ cell = IF constructor_throws(params)
              THEN constructed(params)
              ELSE constructor(params, now)
    /\ fetches = IF ~constructor_throws(params) /\ constructor_fetches(params)
                 THEN {NewFetch(1)} ELSE {}
    /\ op = IF constructor_throws(params)
            THEN Op("constructor", params.pre_load, FALSE, "threw", Undefined)
            ELSE Op("constructor", params.pre_load, constructor_fetches(params),
                    "", Undefined)
    /\ invalidated = FALSE
    /\ NoMessageBody
    /\ NoOAuth
    /\ MailboxEmpty

\* new AsyncTtl(...) returned an object: there is a cell to call.
Constructed == ~(op.name = "constructor" /\ op.mode = "threw")

GetDataValidated == Constructed /\ ~status_throws(cell) /\ GetData

GetDataThrows ==
    /\ Constructed
    /\ status_throws(cell)
    /\ op' = Op("get_data", 0, FALSE, "rejected", Undefined)
    /\ invalidated' = FALSE
    /\ UNCHANGED <<params, cell, now, fetches>> /\ UNCHANGED <<mailboxVars, parseVars, oauthVars>>

UpdateValidated == Constructed /\ Update /\ ~validator_throws(op'.arg)

UpdateThrows ==
    \E v \in Values :
        /\ Constructed
        /\ validator_throws(v)
        /\ op' = Op("update", v, FALSE, "threw", Undefined)
        /\ UNCHANGED <<params, cell, now, fetches, invalidated, max>>
        /\ UNCHANGED <<mailboxVars, parseVars, oauthVars>>

FetchThenValidated == FetchThen /\ ~validator_throws(op'.arg)

\* update(result) throws in the .then callback: the promise the callback's .then
\* returned rejects, and the .finally callback is still to run.
FetchThenThrows ==
    \E f \in fetches :
        /\ f.state = "fulfilled"
        /\ validator_throws(f.result)
        /\ fetches' = (fetches \ {f}) \cup
                          {[f EXCEPT !.state = "rejected", !.result = Undefined]}
        /\ op' = Op("fetch_then", f.result, FALSE, "rejected", Undefined)
        /\ UNCHANGED <<params, cell, now, invalidated>> /\ UNCHANGED <<mailboxVars, parseVars, oauthVars>>

ThrowNext ==
    \/ GetDataValidated
    \/ GetDataThrows
    \/ UpdateValidated
    \/ UpdateThrows
    \/ Constructed /\ RefreshExpiry
    \/ Constructed /\ Invalidate
    \/ Constructed /\ Tick
    \/ FetchResolve
    \/ FetchReject
    \/ FetchThenValidated
    \/ FetchThenThrows
    \/ FetchFinally

ThrowSpec == ThrowInit /\ [][ThrowNext]_vars

(***************************************************************************)
(* A Mailbox's AsyncTtl object: the cell, the thread id its fetch closure  *)
(* is bound to, the promise chain of that closure when one is in flight    *)
(* (with the number of get_thread / get_full promises resolved with it),   *)
(* and the get_full calls suspended at `await cached.data` on this object: *)
(* those whose promise is pending and, in the order they settled, those    *)
(* that can go on.                                                         *)
(***************************************************************************)
\* messages is the number of messages of the thread that gmail.threads.get gave
\* to the closure, as long as the chain has not passed its .then callback.
NoFetch ==
    [state |-> "none", result |-> Undefined, value |-> Undefined, waiters |-> 0,
     messages |-> Undefined]

PendingFetch == [NoFetch EXCEPT !.state = "pending"]

\* new_full_ttl(id): the constructor runs and, there being no pre_load, invokes
\* the fetch closure bound to id.
new_full_ttl(k) ==
    [id |-> k,
     tier |-> Full,
     ttl |-> constructor(ThreadParams, now),
     fetch |-> IF constructor_fetches(ThreadParams) THEN PendingFetch ELSE NoFetch,
     susp |-> [waiting |-> 0, ready |-> <<>>]]

\* The object is reachable from a promise chain or a suspended call.
Alive(o) == o.fetch.state # "none" \/ o.susp.waiting > 0 \/ o.susp.ready # <<>>

\* The calls on the object whose promise is not settled or whose caller has not gone on.
Weight(o) == o.fetch.waiters + o.susp.waiting + Len(o.susp.ready)

\* ttl.data, that is get_data() on the object: the object after it and how the
\* returned promise is resolved; waits says that the promise counts as a waiter
\* of the in-flight promise (a get_full call's is counted as suspended instead).
ttl_data(o, waits) ==
    LET c == o.ttl
        s == status(c, now)
        starts == s.fetch /\ do_fetch_starts(c)
        mode == get_data_mode(s)
        started == IF starts THEN PendingFetch ELSE o.fetch
    IN [obj |-> [o EXCEPT !.ttl = IF s.fetch THEN do_fetch(c, 1) ELSE c,
                          !.fetch = IF mode = "blocked" /\ waits
                                    THEN [started EXCEPT !.waiters = @ + 1]
                                    ELSE started],
        mode |-> mode,
        starts |-> starts,
        value |-> IF mode = "cached" THEN c.data ELSE Undefined]

(***************************************************************************)
(* The LRUCache of lru-cache 10: get and set make the key the most         *)
(* recently used, set evicts the least recently used entry when the cache  *)
(* holds more than max, and set(k, undefined) deletes k.                   *)
(***************************************************************************)
lru_has(th, k) == \E i \in DOMAIN th : th[i].id = k

lru_without(th, k) == SelectSeq(th, LAMBDA e : e.id # k)

lru_peek(th, k) == CHOOSE e \in {th[i] : i \in DOMAIN th} : e.id = k

\* get(k) that leaves the recency order alone (a variant of lru_get).
lru_get_untouched(th, k) == th

\* get(k) of a cache that drops the entry whose cell has expired (a variant of lru_get).
lru_get_expiring(th, k) ==
    IF lru_has(th, k) /\ lru_peek(th, k).ttl.expiry # Undefined
                      /\ lru_peek(th, k).ttl.expiry <= now
    THEN lru_without(th, k)
    ELSE IF lru_has(th, k) THEN Append(lru_without(th, k), lru_peek(th, k)) ELSE th

lru_get(th, k) ==
    IF lru_has(th, k) THEN Append(lru_without(th, k), lru_peek(th, k)) ELSE th

\* The cache with the object stored under k changed to o.
lru_with(th, k, o) == [i \in DOMAIN th |-> IF th[i].id = k THEN o ELSE th[i]]

\* set(k, v) that evicts nothing (a variant of lru_set).
lru_set_unbounded(th, k, v) == Append(lru_without(th, k), v)

lru_set(th, k, v) ==
    LET a == Append(lru_without(th, k), v)
    IN IF Len(a) > max THEN Tail(a) ELSE a

\* set(k, undefined) is delete(k).
lru_set_undefined(th, k) == lru_without(th, k)

\* The objects of th that th2 no longer holds under their key.
Removed(th, th2) == {th[i] : i \in DOMAIN th} \ {e \in {th[i] : i \in DOMAIN th} : lru_has(th2, e.id)}

\* The bag with one more reference to each object of the set os that is still alive.
Keep(bag, os) == bag (+) SetToBag({o \in os : Alive(o)})

Take(bag, o) == bag (-) SetToBag({o})

RECURSIVE SeqWeight(_)
SeqWeight(th) == IF th = <<>> THEN 0 ELSE Weight(Head(th)) + SeqWeight(Tail(th))

RECURSIVE BagWeight(_)
BagWeight(bag) ==
    IF BagToSet(bag) = {}
    THEN 0
    ELSE LET o == CHOOSE x \in BagToSet(bag) : TRUE
         IN CopiesIn(o, bag) * Weight(o)
            + BagWeight([x \in BagToSet(bag) \ {o} |-> bag[x]])

\* The get_thread and get_full calls that are not settled.
Unsettled == SeqWeight(threads) + BagWeight(detached)

(***************************************************************************)
(* get_thread(id): a hit returns the stored object's data; a miss stores a *)
(* new object under id and returns its data.                               *)
(***************************************************************************)
GetThread ==
    \E k \in Keys :
        LET hit == lru_has(threads, k)
            r == IF hit THEN ttl_data(lru_peek(threads, k), TRUE)
                 ELSE ttl_data(new_full_ttl(k), TRUE)
            th == IF hit
                  THEN lru_with(lru_get(threads, k), k, r.obj)
                  ELSE lru_set(threads, k, r.obj)
        IN /\ r.mode = "blocked" => Unsettled < MaxCalls
           /\ threads' = th
           /\ detached' = Keep(detached, Removed(threads, th))
           /\ op' = Op("get_thread", k, ~hit, r.mode, r.value)
           /\ UNCHANGED <<params, cell, now, fetches, invalidated, max,
                          parseVars, oauthVars>>

(***************************************************************************)
(* get_full(id).  With an object stored under id the call suspends at      *)
(* `await cached.data` (GetFull) and goes on when that promise has settled *)
(* (GetFullResume).  Without one it runs to its end at once.  Its end      *)
(* makes a new object, calls threads.set(id, cached) and returns the new   *)
(* object's data.                                                          *)
(***************************************************************************)
suspend(o, r) ==
    IF r.mode = "cached"
    THEN [r.obj EXCEPT !.susp.ready = Append(@, [ok |-> TRUE, value |-> r.value])]
    ELSE [r.obj EXCEPT !.susp.waiting = @ + 1]

GetFull ==
    \E k \in Keys :
        LET hit == lru_has(threads, k)
            cached == lru_peek(threads, k)
            new_ttl == ttl_data(new_full_ttl(k), TRUE).obj
            th == IF hit
                  THEN lru_with(lru_get(threads, k), k,
                                suspend(cached, ttl_data(cached, FALSE)))
                  ELSE lru_set_undefined(threads, k)
        IN /\ Unsettled < MaxCalls
           /\ threads' = th
           /\ detached' = IF hit THEN detached ELSE Keep(detached, {new_ttl})
           /\ op' = Op("get_full", k, ~hit,
                       IF hit THEN ttl_data(cached, FALSE).mode ELSE "blocked", Undefined)
           /\ UNCHANGED <<params, cell, now, fetches, invalidated, max,
                          parseVars, oauthVars>>

\* The objects of the Mailbox: those in the cache and those detached from it.
Objects ==
    {[stored |-> TRUE, obj |-> threads[i]] : i \in DOMAIN threads}
        \cup {[stored |-> FALSE, obj |-> o] : o \in BagToSet(detached)}

\* The change of an object written through the cache by the object's key (a
\* variant of PutThreads).
PutThreadsByKey(l, o2) ==
    [i \in DOMAIN threads |-> IF threads[i].id = l.obj.id THEN o2 ELSE threads[i]]

\* The Mailbox with the object at l changed to o2.
PutThreads(l, o2) ==
    IF l.stored
    THEN [i \in DOMAIN threads |-> IF threads[i] = l.obj THEN o2 ELSE threads[i]]
    ELSE threads

PutDetached(l, o2) ==
    IF l.stored THEN detached ELSE Keep(Take(detached, l.obj), {o2})

GetFullResume ==
    \E l \in Objects :
        LET cached == [l.obj EXCEPT !.susp.ready = Tail(@)]
            a == Head(l.obj.susp.ready)
            new_ttl == ttl_data(new_full_ttl(l.obj.id), TRUE).obj
            th == lru_set(PutThreads(l, cached), cached.id, cached)
            rest == IF l.stored THEN detached ELSE Take(detached, l.obj)
            \* the object that set(id, cached) replaces under the id
            replaced == IF ~l.stored /\ lru_has(threads, cached.id)
                        THEN {lru_peek(threads, cached.id)}
                        ELSE {}
        IN /\ l.obj.susp.ready # <<>>
           /\ IF ~a.ok \/ isFull(a.value)
              THEN /\ threads' = PutThreads(l, cached)
                   /\ detached' = PutDetached(l, cached)
              ELSE /\ threads' = th
                   /\ detached' = Keep(Keep(Keep(rest, Removed(PutThreads(l, cached), th)),
                                        replaced), {new_ttl})
           /\ op' = Op("get_full_resume", l.obj.id, a.ok /\ ~isFull(a.value),
                       IF a.ok THEN "resolved" ELSE "rejected", a.value)
           /\ UNCHANGED <<params, cell, now, fetches, invalidated, max,
                          parseVars, oauthVars>>

(***************************************************************************)
(* The promise chain of a Mailbox object's fetch closure,                  *)
(*   MailThread.get_thread(gmail, {id}).then(response => response.thread), *)
(* which fulfils with a FullMailThread or rejects: gmail.threads.get       *)
(* rejects, or it gives a thread from which the constructor of the         *)
(* thread's class throws.                                                  *)
(***************************************************************************)
\* The threads gmail.threads.get gives: with the id asked for, and with no
\* message or with one.
Responses == {[id |-> TRUE, messages |-> m] : m \in {0, 1}}

SlimMailThread_throws(r) == ~r.id

\* The constructor without the test of messages (a variant of FullMailThread_throws).
FullMailThread_accepts_empty(r) == ~r.id

FullMailThread_throws(r) == ~r.id \/ r.messages = 0

\* The constructor that the fetch closure of a cell of this tier runs.
thread_throws(tier, r) ==
    IF isFull(tier) THEN FullMailThread_throws(r) ELSE SlimMailThread_throws(r)

MFetchResolve ==
    \E l \in Objects, r \in Responses :
        LET o2 == [l.obj EXCEPT !.fetch.state = "fulfilled",
                                !.fetch.result = l.obj.tier,
                                !.fetch.messages = r.messages]
        IN /\ l.obj.fetch.state = "pending"
           /\ ~thread_throws(l.obj.tier, r)
           /\ threads' = PutThreads(l, o2)
           /\ detached' = PutDetached(l, o2)
           /\ UNCHANGED <<params, cell, now, fetches, op, invalidated, max,
                          parseVars, oauthVars>>

\* What the closure of a cell of this tier has received when it rejects: nothing
\* (gmail.threads.get rejected) or a thread from which the constructor throws.
Rejections(tier) ==
    {Undefined} \cup {r.messages : r \in {x \in Responses : thread_throws(tier, x)}}

MFetchReject ==
    \E l \in Objects :
        \E m \in Rejections(l.obj.tier) :
            LET o2 == [l.obj EXCEPT !.fetch.state = "rejected", !.fetch.messages = m]
            IN /\ l.obj.fetch.state = "pending"
               /\ threads' = PutThreads(l, o2)
               /\ detached' = PutDetached(l, o2)
               /\ UNCHANGED <<params, cell, now, fetches, op, invalidated, max,
                              parseVars, oauthVars>>

MFetchThen ==
    \E l \in Objects :
        LET f == l.obj.fetch
            o2 == [l.obj EXCEPT !.ttl = update(@, f.result, now),
                                !.fetch.state = "updated",
                                !.fetch.result = Undefined,
                                !.fetch.messages = Undefined,
                                !.fetch.value = then_value(l.obj.ttl, f.result, now)]
        IN /\ f.state = "fulfilled"
           /\ threads' = PutThreads(l, o2)
           /\ detached' = PutDetached(l, o2)
           /\ UNCHANGED <<params, cell, now, fetches, op, invalidated, max,
                          parseVars, oauthVars>>

\* The calls suspended on the in-flight promise can go on with its outcome.
Settled(n, f) == [i \in 1..n |-> [ok |-> f.state = "updated", value |-> f.value]]

MFetchFinally ==
    \E l \in Objects :
        LET f == l.obj.fetch
            o2 == [l.obj EXCEPT !.ttl = finally_clears(@),
                                !.fetch = NoFetch,
                                !.susp.waiting = 0,
                                !.susp.ready = @ \o Settled(l.obj.susp.waiting, f)]
        IN /\ f.state \in {"updated", "rejected"}
           /\ threads' = PutThreads(l, o2)
           /\ detached' = PutDetached(l, o2)
           /\ UNCHANGED <<params, cell, now, fetches, op, invalidated, max,
                          parseVars, oauthVars>>

\* The Mailbox's clock moves in steps that take every stored thread past its expiry.
MTick ==
    /\ now < Epoch + MaxExpiries * (thread_ttl + 1)
    /\ now' = now + thread_ttl + 1
    /\ UNCHANGED <<params, cell, fetches, op, invalidated>>
    /\ UNCHANGED <<mailboxVars, parseVars, oauthVars>>

MailboxInit ==
    /\ params = ThreadParams
    /\ now = Epoch
    /\ cell = constructed(ThreadParams)
    /\ fetches = {}
    /\ op = Op("constructor", Undefined, FALSE, "", Undefined)
    /\ invalidated = FALSE
    /\ NoMessageBody
    /\ NoOAuth
    /\ MailboxEmpty

MailboxNext ==
    \/ GetThread
    \/ GetFull
    \/ GetFullResume
    \/ MFetchResolve
    \/ MFetchReject
    \/ MFetchThen
    \/ MFetchFinally
    \/ MTick

MailboxSpec == MailboxInit /\ [][MailboxNext]_vars

(***************************************************************************)
(* The Mailbox as the repository uses it: get_full is private and nothing  *)
(* calls it, so only get_thread is called.  The cache holds LruCapacity    *)
(* threads here, so that the order of eviction shows.                      *)
(***************************************************************************)
LruInit ==
    /\ params = ThreadParams
    /\ now = Epoch
    /\ cell = constructed(ThreadParams)
    /\ fetches = {}
    /\ op = Op("constructor", Undefined, FALSE, "", Undefined)
    /\ invalidated = FALSE
    /\ NoMessageBody
    /\ NoOAuth
    /\ threads = <<>>
    /\ detached = EmptyBag
    /\ max = LruCapacity

LruNext ==
    \/ GetThread
    \/ MFetchResolve
    \/ MFetchReject
    \/ MFetchThen
    \/ MFetchFinally
    \/ MTick

LruSpec == LruInit /\ [][LruNext]_vars

(***************************************************************************)
(* A Mailbox whose cache holds a summary: Mailbox.threads is a public      *)
(* field, and get_full tests thread.isFull() for the case that the cell    *)
(* stored under the id holds a SlimMailThread.  No method of the Mailbox   *)
(* stores such a cell, so the state starts with one stored through the     *)
(* field: an AsyncTtl pre-loaded with the SlimMailThread of a listing,     *)
(* whose fetch closure gives a SlimMailThread again.                       *)
(***************************************************************************)
slim_ttl(k) ==
    [id |-> k,
     tier |-> Slim,
     ttl |-> constructor([ThreadParams EXCEPT !.pre_load = Slim], now),
     fetch |-> NoFetch,
     susp |-> [waiting |-> 0, ready |-> <<>>]]

PromotionInit ==
    /\ params = ThreadParams
    /\ now = Epoch
    /\ cell = constructed(ThreadParams)
    /\ fetches = {}
    /\ op = Op("constructor", Undefined, FALSE, "", Undefined)
    /\ invalidated = FALSE
    /\ NoMessageBody
    /\ NoOAuth
    /\ max = Capacity
    /\ \E k \in 1..(Capacity + 1) : threads = <<slim_ttl(k)>>
    /\ detached = EmptyBag

PromotionSpec == PromotionInit /\ [][MailboxNext]_vars

(***************************************************************************)
(* A MessageBody alone: it is constructed with or without raw forms, then  *)
(* its two parts are assigned and read in any order.                       *)
(***************************************************************************)
\* The cell and the mailbox, which the next specifications leave alone.
NoCell ==
    /\ params = ThreadParams
    /\ now = Epoch
    /\ cell = constructed(ThreadParams)
    /\ fetches = {}
    /\ op = Op("constructor", Undefined, FALSE, "", Undefined)
    /\ invalidated = FALSE
    /\ MailboxEmpty

ParseInit ==
    /\ NoCell
    /\ BodyInit
    /\ NoOAuth

ParseNext ==
    \/ SetValue
    \/ GetValue

ParseSpec == ParseInit /\ [][ParseNext]_vars

(***************************************************************************)
(* One call of getOAuthClient.                                             *)
(***************************************************************************)
\* The callback of listen: the client is made, the browser opened and the timer
\* set, or one of these throws and the catch clause runs.
Listening ==
    /\ oauth.server = "starting"
    /\ \/ oauth' = [oauth EXCEPT !.server = "listening", !.timer = "armed"]
       \/ oauth' = reject(destroy(clearTimeout(oauth)), "thrown")
    /\ UNCHANGED <<cellVars, mailboxVars, parseVars>>

\* A request arrives and the request callback runs to its first await or to its
\* return.
Request ==
    \E r \in Requests :
        /\ oauth.server = "listening"
        /\ BagCardinality(oauth.handlers) < MaxRequests
        /\ oauth' =
             IF r = "code"
             THEN [clearTimeout(oauth) EXCEPT
                       !.handlers = @ (+) SetToBag({"exchanging"})]
             ELSE [reject(clearTimeout(oauth), request_error(r)) EXCEPT
                       !.handlers = @ (+) SetToBag({"returned"})]
        /\ UNCHANGED <<cellVars, mailboxVars, parseVars>>

Exchanging == BagIn("exchanging", oauth.handlers)

\* client.getToken resolves: the credentials are set and the promise resolved.
TokenResolve ==
    /\ Exchanging
    /\ oauth' = [resolve(oauth) EXCEPT
                    !.handlers = (@ (-) SetToBag({"exchanging"}))
                                   (+) SetToBag({"returned"})]
    /\ UNCHANGED <<cellVars, mailboxVars, parseVars>>

\* client.getToken rejects: the request callback rejects.
TokenReject ==
    /\ Exchanging
    /\ oauth' = [oauth EXCEPT
                    !.handlers = (@ (-) SetToBag({"exchanging"}))
                                   (+) SetToBag({"threw"})]
    /\ UNCHANGED <<cellVars, mailboxVars, parseVars>>

\* The handler of makeOneShotServer after the request callback has settled:
\* response.end in the try or in the catch clause, then server.destroy().
HandlerEnd ==
    \E stage \in {"returned", "threw"} :
        /\ BagIn(stage, oauth.handlers)
        /\ oauth' = [destroy(oauth) EXCEPT !.handlers = @ (-) SetToBag({stage})]
        /\ UNCHANGED <<cellVars, mailboxVars, parseVars>>

\* Time passes.
OAuthTick ==
    /\ oauth.server # "starting"
    /\ oauth.clock < ShutdownDelay
    /\ oauth' = [oauth EXCEPT !.clock = @ + 1]
    /\ UNCHANGED <<cellVars, mailboxVars, parseVars>>

\* The shutdown timer fires.
ShutdownTimer ==
    /\ oauth.timer = "armed"
    /\ oauth.clock = ShutdownDelay
    /\ oauth' = [reject(destroy(oauth), "OAuth timed out.") EXCEPT !.timer = "fired"]
    /\ UNCHANGED <<cellVars, mailboxVars, parseVars>>

OAuthInit ==
    /\ NoCell
    /\ NoMessageBody
    /\ NoOAuth

OAuthNext ==
    \/ Listening
    \/ Request
    \/ TokenResolve
    \/ TokenReject
    \/ HandlerEnd
    \/ OAuthTick
    \/ ShutdownTimer

OAuthSpec == OAuthInit /\ [][OAuthNext]_vars

(***************************************************************************)
(* Properties of the cell, checked under Spec.                             *)
(***************************************************************************)
InFlight(c) == c.fetching # Undefined

HasValidData(c) == loaded(c) /\ data_valid(c, c.data)

IsGetData(o) == o.name = "get_data"

\* C1 as stated: at most one invocation of the fetch closure is outstanding, and
\* every get_data call made while a fetch is in flight invokes no further fetch and
\* settles with the outcome of the in-flight one (it is resolved with that promise).
C1_AllCallsShareTheFetch ==
    [][/\ Cardinality(fetches') <= 1
       /\ (IsGetData(op') /\ InFlight(cell)) =>
             /\ ~op'.ret
             /\ op'.mode = "blocked"
             /\ op'.arg = cell.fetching]_cellVars

\* C1 amended: at most one invocation of the fetch closure is outstanding; a
\* get_data call made while a fetch is in flight never invokes the closure, leaves
\* the in-flight promise in place, and, unless it is served from fresh cached data,
\* is resolved with that one in-flight promise (it becomes one more waiter of it).
C1_SingleFlight ==
    [][/\ Cardinality(fetches') <= 1
       /\ (IsGetData(op') /\ InFlight(cell)) =>
             /\ ~op'.ret
             /\ cell'.fetching = cell.fetching
             /\ Ids(fetches') = Ids(fetches)
             /\ op'.mode = "blocked" =>
                   /\ op'.arg = cell.fetching
                   /\ \A f \in fetches : f.id = cell.fetching =>
                         \E g \in fetches' : g = [f EXCEPT !.waiters = f.waiters + 1]
             /\ op'.mode = "cached" => HasValidData(cell) /\ op'.value = cell.data]_cellVars

\* C1 witness: two get_data calls wait on one invocation of the fetch closure.
C1_Witness ==
    /\ IsGetData(op) /\ ~op.ret /\ op.mode = "blocked"
    /\ fetches # {}
    /\ \A f \in fetches : f.state = "pending" /\ f.waiters = 2 /\ f.id = cell.fetching

\* C3 as stated: no get_data promise is fulfilled with a value that fails is_valid:
\* neither the value of a call served from the cache, nor the value with which the
\* in-flight promise fulfils the calls waiting on it.
C3_NeverAnInvalidValue ==
    /\ (IsGetData(op) /\ op.mode = "cached") => data_valid(cell, op.value)
    /\ (op.name = "fetch_finally" /\ op.ret /\ op.arg > 0) => data_valid(cell, op.value)

\* C3 amended: a get_data promise is fulfilled with the cell's data, which is a value
\* that passed is_valid or, on a cell that holds no data, undefined; a call served
\* from the cache is always fulfilled with a valid value.
C3_ValidOrUndefined ==
    /\ (IsGetData(op) /\ op.mode = "cached") => data_valid(cell, op.value)
    /\ (op.name = "fetch_finally" /\ op.ret /\ op.arg > 0) =>
          (op.value = Undefined \/ data_valid(cell, op.value))
    /\ cell.data = Undefined \/ data_valid(cell, cell.data)

\* C3 witness: waiting calls are fulfilled with undefined after a fetch on a cell
\* that never held data resolved with an invalid value.
C3_Witness ==
    /\ op.name = "fetch_finally" /\ op.ret /\ op.arg > 0
    /\ op.value = Undefined
    /\ ~loaded(cell)

\* C4 as stated: expiry is set if and only if data holds a value that passed is_valid.
C4_ExpiryIffValidData ==
    loaded(cell) <=> data_valid(cell, cell.data)

\* C5: update(v) returns is_valid(v); when true, data is v and expiry is now + max_age;
\* when false, the cell is unchanged.
C5_Update ==
    [][op'.name = "update" =>
          /\ op'.ret = Truthy(op'.arg)
          /\ op'.ret => cell' = [cell EXCEPT !.data = op'.arg,
                                               !.expiry = now + cell.max_age]
          /\ ~op'.ret => cell' = cell]_cellVars

\* C5 witness: an update with a valid value replaced other data while a fetch was in flight.
C5_Witness ==
    /\ op.name = "update" /\ op.ret /\ op.arg = 2
    /\ cell.data = 2 /\ cell.expiry = now + cell.max_age /\ now > Epoch
    /\ InFlight(cell)

\* C6 as stated: update(v) with a valid v followed at the same instant by get_data()
\* resolves to v without invoking the fetch closure, and loaded is true.
C6_UpdateThenGetData ==
    [][(op.name = "update" /\ op.ret /\ IsGetData(op')) =>
          /\ op'.mode = "cached"
          /\ op'.value = op.arg
          /\ ~op'.ret
          /\ loaded(cell')]_cellVars

\* C7: on a cell with valid data and neither early refresh nor stale grace, get_data
\* at now <= expiry resolves to the cached data and neither starts nor joins a fetch;
\* at now > expiry it starts a fetch (or joins the one in flight) and waits on it.
C7_ExpiryBoundary ==
    [][(/\ IsGetData(op')
        /\ HasValidData(cell)
        /\ ~Truthy(cell.early_refresh)
        /\ ~Truthy(cell.stale_while_revalidate)) =>
          IF now <= cell.expiry
          THEN /\ op'.mode = "cached" /\ op'.value = cell.data
               /\ ~op'.ret /\ op'.arg = 0
               /\ fetches' = fetches /\ cell' = cell
          ELSE /\ op'.mode = "blocked"
               /\ op'.ret = ~InFlight(cell)
               /\ InFlight(cell')
               /\ op'.arg = cell'.fetching
               /\ \E f \in fetches' : f.id = op'.arg /\ f.waiters >= 1]_cellVars

\* C7 witness: a get_data call one tick after the expiry set by a load blocks on a new fetch.
C7_Witness ==
    /\ IsGetData(op) /\ op.mode = "blocked" /\ op.ret
    /\ HasValidData(cell) /\ ~Truthy(cell.early_refresh)
    /\ cell.expiry > 0 /\ now = cell.expiry + 1

\* C8 as stated: with an early refresh lead L, get_data at now < expiry - L resolves
\* to the cached data without starting a fetch, and at expiry - L <= now <= expiry it
\* resolves to the cached data and starts or joins a fetch.
C8_EarlyRefreshWindow ==
    [][(/\ IsGetData(op')
        /\ HasValidData(cell)
        /\ Truthy(cell.early_refresh)
        /\ now <= cell.expiry) =>
          /\ op'.mode = "cached" /\ op'.value = cell.data
          /\ IF now < cell.expiry - cell.early_refresh
             THEN ~op'.ret
             ELSE InFlight(cell') /\ op'.arg = cell'.fetching]_cellVars

\* C9 as stated: a cell constructed with a stale grace G resolves get_data at a time
\* in (expiry, expiry + G] at once to the old value while a fetch is started or
\* joined, and at a time > expiry + G only through a fetch.
C9_StaleWhileRevalidate ==
    [][(/\ IsGetData(op')
        /\ Truthy(params.stale_grace)
        /\ HasValidData(cell)
        /\ now > cell.expiry) =>
          IF now <= cell.expiry + params.stale_grace
          THEN op'.mode = "cached" /\ op'.value = cell.data /\ InFlight(cell')
          ELSE op'.mode = "blocked"]_cellVars

\* C10 as stated: the first get_data call after invalidate() is not served from the
\* cache: it blocks on a fetch that is still in flight after the call.
C10_InvalidateForcesFetch ==
    [][(invalidated /\ IsGetData(op')) =>
          /\ op'.mode = "blocked"
          /\ InFlight(cell')
          /\ op'.arg = cell'.fetching]_cellVars

(***************************************************************************)
(* C2.  Single-flight per key in the Mailbox: whatever the interleaving of *)
(* get_thread(key) and get_full(key) calls, at most one invocation of the  *)
(* fetch closure for a key is outstanding at any time.                     *)
(* get_full does not store the object it makes (it calls                   *)
(* threads.set(id, cached) instead of threads.set(id, new_ttl)), so the    *)
(* next call for the key finds no object with the fetch in flight and      *)
(* starts a second one.                                                    *)
(***************************************************************************)
Outstanding(k) ==
    Cardinality({i \in DOMAIN threads :
                    threads[i].id = k /\ threads[i].fetch.state = "pending"})
        + BagCardinality([o \in {x \in BagToSet(detached) :
                                    x.id = k /\ x.fetch.state = "pending"}
                            |-> detached[o]])

C2_SingleFlightPerKey == \A k \in Keys : Outstanding(k) <= 1

(***************************************************************************)
(* C11.  invalidate() is idempotent: a second invalidate() in a row leaves *)
(* the cell as the first left it, and the get_data call that follows the   *)
(* invalidation is answered by exactly one invocation of the fetch         *)
(* closure: the call waits on it and it is the only one outstanding.       *)
(***************************************************************************)
C11_InvalidateIdempotent ==
    [][/\ (op.name = "invalidate" /\ op'.name = "invalidate") => cell' = cell
       /\ (invalidated /\ IsGetData(op')) =>
             /\ Cardinality(fetches') = 1
             /\ op'.mode = "blocked"
             /\ \A f \in fetches' : f.id = op'.arg /\ f.id = cell'.fetching]_cellVars

(***************************************************************************)
(* C12.  Fetch failure: when the fetch closure's promise rejects, the      *)
(* .then callback is skipped, so data and expiry stay as they are; the     *)
(* .finally callback clears _fetching and every get_data promise resolved  *)
(* with the chain's promise (the initiator's and the coalesced waiters')   *)
(* is rejected; a get_data call that follows and finds no fresh data       *)
(* invokes the fetch closure again.                                        *)
(***************************************************************************)
C12_FetchFailure ==
    [][/\ op'.name = "fetch_reject" => cell' = cell
       /\ \A f \in fetches : f.state = "rejected" =>
             /\ op'.name # "fetch_then"
             /\ op'.name = "fetch_finally" =>
                   /\ ~op'.ret /\ op'.arg = f.waiters
                   /\ cell'.data = cell.data /\ cell'.expiry = cell.expiry
                   /\ ~InFlight(cell') /\ fetches' = {}
       /\ (/\ op.name = "fetch_finally" /\ ~op.ret
           /\ IsGetData(op')
           /\ (~HasValidData(cell) \/ now > cell.expiry)) =>
             /\ op'.ret /\ op'.mode = "blocked"
             /\ \E f \in fetches' : f.id = op'.arg /\ f.state = "pending"]_cellVars

\* C12 witness: a rejected fetch has just failed the two get_data calls waiting on
\* it, on a cell that keeps the data and the expiry it had.
C12_Witness ==
    /\ op.name = "fetch_finally" /\ ~op.ret /\ op.arg = 2
    /\ cell.data # Undefined /\ loaded(cell)
    /\ ~InFlight(cell) /\ fetches = {}

(***************************************************************************)
(* C13.  Invalid fetch result: when the fetch closure's promise fulfils    *)
(* with a value that fails the validator, the .then callback leaves the    *)
(* cell as it is and returns this._data, so the chain's promise is         *)
(* fulfilled, not rejected, and the calls blocked on it receive the value  *)
(* the cell holds (the prior, stale one if there is one); a cell without   *)
(* valid data makes a get_data call that follows invoke the fetch closure  *)
(* again.                                                                  *)
(***************************************************************************)
C13_InvalidFetchResult ==
    [][/\ (op'.name = "fetch_then" /\ ~data_valid(cell, op'.arg)) =>
             /\ ~op'.ret
             /\ cell' = cell
             /\ \A f \in fetches : f.state = "fulfilled" =>
                   [f EXCEPT !.state = "updated", !.result = Undefined,
                             !.value = cell.data] \in fetches'
       /\ \A f \in fetches : (f.state = "updated" /\ op'.name = "fetch_finally") =>
             /\ op'.ret /\ op'.value = f.value /\ op'.arg = f.waiters
             /\ cell'.data = cell.data /\ cell'.expiry = cell.expiry
       /\ (/\ op.name = "fetch_finally" /\ op.ret
           /\ IsGetData(op')
           /\ ~data_valid(cell, cell.data)) =>
             /\ op'.ret /\ op'.mode = "blocked"
             /\ \E f \in fetches' : f.id = op'.arg /\ f.state = "pending"]_cellVars

\* C13 witness: a fetch on a cell with expired valid data resolved with an invalid
\* value, and the call blocked on it is about to receive the prior value.
C13_Witness ==
    /\ op.name = "fetch_then" /\ ~op.ret /\ ~data_valid(cell, op.arg)
    /\ HasValidData(cell) /\ now > cell.expiry
    /\ \E f \in fetches : f.state = "updated" /\ f.value = cell.data /\ f.waiters >= 1

(***************************************************************************)
(* C14.  A validator that throws never corrupts the cell: whether it       *)
(* throws in get_data's reading of the status, on fetch resolution or on   *)
(* the pre-load check of the constructor, the error becomes a rejected     *)
(* outcome (it never escapes as an exception), the cell never holds a      *)
(* value the validator did not accept, and _fetching is set only while a   *)
(* promise chain that will clear it is alive.  Checked under ThrowSpec.    *)
(***************************************************************************)
C14_ThrowingValidator ==
    /\ op.name \in {"constructor", "get_data", "fetch_then"} => op.mode # "threw"
    /\ cell.data = Undefined \/ (~validator_throws(cell.data) /\ data_valid(cell, cell.data))
    /\ InFlight(cell) => \E f \in fetches : f.id = cell.fetching

(***************************************************************************)
(* C15.  loaded is true only on a cell where an update or a fetch result   *)
(* has passed validation, that is, on a cell that holds data (data is set  *)
(* by a successful update only and is never cleared); after invalidate()   *)
(* or refresh_expiry() alone, or after failed fetches alone, it is false.  *)
(***************************************************************************)
C15_LoadedOnlyAfterValidData ==
    loaded(cell) => cell.data # Undefined

(***************************************************************************)
(* Properties of the keyed cache.                                          *)
(***************************************************************************)
StoredKeys(th) == {th[i].id : i \in DOMAIN th}

\* C16: the cache never holds more keys than its capacity, whatever get_thread and
\* get_full calls were made, and holds each key once.  Checked under MailboxSpec.
C16_SizeWithinCapacity ==
    /\ Len(threads) <= max
    /\ Cardinality(StoredKeys(threads)) = Len(threads)

\* C16 witness: a get_thread miss has filled the cache, and a thread that was stored
\* and loaded before is outside the cache with its refresh still in flight.
C16_Witness ==
    /\ op.name = "get_thread" /\ op.ret
    /\ Len(threads) = max
    /\ lru_has(threads, op.arg)
    /\ \E o \in BagToSet(detached) :
          o.id # op.arg /\ o.ttl.data # Undefined /\ o.fetch.state = "pending"

\* C17: when an insert finds the cache full, exactly one key leaves it, the key that
\* leaves is not the key that was accessed last (the key of the call before: with a
\* capacity of two the other one is the least recently accessed), and the other keys
\* stay, joined by the new one.  Checked under LruSpec.
C17_LruEvictionOrder ==
    [][(/\ Len(threads) = max
        /\ ~(StoredKeys(threads') \subseteq StoredKeys(threads))) =>
          LET gone == StoredKeys(threads) \ StoredKeys(threads')
          IN /\ Cardinality(gone) = 1
             /\ op.name = "get_thread" /\ op.arg \notin gone
             /\ op'.name = "get_thread" /\ op'.ret
             /\ StoredKeys(threads') = (StoredKeys(threads) \ gone) \cup {op'.arg}]_vars

\* C17 witness: a get_thread miss on a full cache of two has evicted a thread whose
\* fetch is still in flight, and the thread that stays is one that is loaded.
C17_Witness ==
    /\ op.name = "get_thread" /\ op.ret
    /\ max = LruCapacity /\ Len(threads) = max
    /\ threads[2].id = op.arg
    /\ threads[1].ttl.data # Undefined /\ threads[1].fetch.state = "none"
    /\ \E o \in BagToSet(detached) :
          /\ o.id \notin StoredKeys(threads)
          /\ o.ttl.data = Undefined /\ o.fetch.state = "pending"

(***************************************************************************)
(* The tiers.  A key is cached-summary when the cell stored under it       *)
(* fetches (and so holds) a SlimMailThread, cached-complete when it        *)
(* fetches a FullMailThread, absent when no cell is stored under it.       *)
(* op is the last call made on the Mailbox, so what a call leaves in the   *)
(* cache is still there while op names that call.                          *)
(***************************************************************************)
CachedSummary(th, k) == lru_has(th, k) /\ lru_peek(th, k).tier = Slim

CachedComplete(th, k) == lru_has(th, k) /\ lru_peek(th, k).tier = Full

\* The invocations of the fetch closure for key k that are outstanding, the cache
\* being th and the objects outside it det.
OutstandingIn(th, det, k) ==
    Cardinality({i \in DOMAIN th : th[i].id = k /\ th[i].fetch.state = "pending"})
        + BagCardinality([o \in {x \in BagToSet(det) :
                                    x.id = k /\ x.fetch.state = "pending"}
                            |-> det[o]])

\* C18 as stated: get_thread on an absent key stores under the key a new cell whose
\* fetch closure fetches the summary, and the key is then cached-summary, not
\* cached-complete.  Checked under MailboxSpec.
C18_GetCachesSummary ==
    (op.name = "get_thread" /\ op.ret) =>
        /\ CachedSummary(threads, op.arg)
        /\ ~CachedComplete(threads, op.arg)

\* C19 as stated: get_full on an absent key stores the complete-tier cell it makes
\* under the key (the key is cached-complete, mapped to the new cell), and a
\* get_thread or get_full call on the key that follows starts no further fetch.
\* Checked under MailboxSpec.
C19_GetCompleteInserts ==
    [][/\ (op'.name = "get_full" /\ op'.ret) =>
             /\ CachedComplete(threads', op'.arg)
             /\ OutstandingIn(threads', detached', op'.arg) <= 1
       /\ (/\ op.name = "get_full" /\ op.ret
           /\ op'.name \in {"get_thread", "get_full"} /\ op'.arg = op.arg
           /\ now <= Epoch + thread_ttl) =>
             OutstandingIn(threads', detached', op.arg) <= Outstanding(op.arg)]_vars

C22_KeysLeaveByEvictionOnly ==
    [][StoredKeys(threads) \ StoredKeys(threads') # {} =>
          /\ Len(threads) = max
          /\ StoredKeys(threads) \ StoredKeys(threads') = {Head(threads).id}
          /\ StoredKeys(threads') \ StoredKeys(threads) = {op'.arg}
          /\ op'.name \in {"get_thread", "get_full_resume"}
          /\ op'.ret]_vars

\* A cell whose expiry has passed is read by a get_thread call and is still stored.
C22_Witness ==
    /\ op.name = "get_thread" /\ ~op.ret
    /\ lru_has(threads, op.arg)
    /\ lru_peek(threads, op.arg).ttl.expiry # Undefined
    /\ lru_peek(threads, op.arg).ttl.expiry <= now

C24_ConcurrentGetsShareOneFetch ==
    [][(op'.name = "get_thread" /\ now' = now /\ GetThread) =>
          LET k == op'.arg
              pre == lru_peek(threads, k)
              post == lru_peek(threads', k)
          IN /\ op'.ret =>
                  /\ lru_has(threads', k)
                  /\ post.fetch = [PendingFetch EXCEPT !.waiters = 1]
                  /\ OutstandingIn(threads', detached', k) = Outstanding(k) + 1
             /\ (lru_has(threads, k) /\ pre.fetch.state # "none") =>
                  /\ ~op'.ret
                  /\ OutstandingIn(threads', detached', k) = Outstanding(k)
                  /\ \/ /\ op'.mode = "blocked"
                        /\ post = [pre EXCEPT !.fetch.waiters = @ + 1]
                     \/ /\ op'.mode = "cached"
                        /\ pre.fetch.state = "updated"
                        /\ op'.value = pre.fetch.value
                        /\ post = pre]_vars

\* Two get_thread calls for one key are blocked on the one fetch of the key's cell.
C24_Witness ==
    /\ op.name = "get_thread" /\ ~op.ret /\ op.mode = "blocked"
    /\ lru_has(threads, op.arg)
    /\ lru_peek(threads, op.arg).fetch.waiters >= 2
    /\ Outstanding(op.arg) = 1

\* C25.  A failed fetch is surfaced and not cached.  When the promise chain of a
\* stored cell's fetch ends rejected, the cell keeps the data and expiry it had
\* and has _fetching cleared, and every get_full call suspended on the promise
\* goes on with the rejection, not with a value.  A get_thread call that then
\* finds the cell without data is not served a value: it invokes the fetch
\* closure again and is blocked on the new promise.  Checked under MailboxSpec.
C25_FailedGetNotCached ==
    [][/\ \A i \in DOMAIN threads :
            (/\ threads[i].fetch.state = "rejected"
             /\ i \in DOMAIN threads'
             /\ threads'[i].id = threads[i].id
             /\ threads'[i].fetch.state = "none") =>
                /\ threads'[i].ttl = [threads[i].ttl EXCEPT !.fetching = Undefined]
                /\ threads'[i].susp.waiting = 0
                /\ threads'[i].susp.ready =
                       threads[i].susp.ready
                           \o [j \in 1..threads[i].susp.waiting |->
                                   [ok |-> FALSE, value |-> Undefined]]
       /\ LET k == op'.arg
              pre == lru_peek(threads, k)
          IN (/\ op'.name = "get_thread"
              /\ lru_has(threads, k)
              /\ pre.fetch.state = "none"
              /\ pre.ttl.data = Undefined
              /\ GetThread) =>
                   /\ op'.mode = "blocked"
                   /\ op'.value = Undefined
                   /\ lru_peek(threads', k).fetch = [PendingFetch EXCEPT !.waiters = 1]
                   /\ OutstandingIn(threads', detached', k) = Outstanding(k) + 1]_vars

\* A get_thread call has found the cell of a key whose fetch failed and has
\* started the key's fetch again.
C25_Witness ==
    /\ op.name = "get_thread" /\ ~op.ret /\ op.mode = "blocked"
    /\ lru_has(threads, op.arg)
    /\ lru_peek(threads, op.arg).ttl.data = Undefined
    /\ lru_peek(threads, op.arg).fetch = [PendingFetch EXCEPT !.waiters = 1]

\* C26.  Construction.  With pre_load absent or rejected by the validator, the
\* constructor has invoked the fetch closure exactly once when it returns
\* (_fetching is set, no get_data call has been made) and the cell holds neither
\* data nor expiry; with a valid pre_load it has invoked no fetch, data is the
\* pre_load, expiry is the time of construction plus max_age and loaded is true.
\* Checked under Spec, where the state keeps op.name = "constructor" until the
\* first call or the first callback of the promise chain.
C26_Construction ==
    op.name = "constructor" =>
        IF params.pre_load = Undefined \/ ~data_valid(cell, params.pre_load)
        THEN /\ op.ret
             /\ InFlight(cell)
             /\ Cardinality(fetches) = 1
             /\ \A f \in fetches : f.id = cell.fetching /\ f.waiters = 0
             /\ cell.data = Undefined
             /\ ~loaded(cell)
        ELSE /\ ~op.ret
             /\ ~InFlight(cell)
             /\ fetches = {}
             /\ cell.data = params.pre_load
             /\ cell.expiry = Epoch + params.max_age
             /\ loaded(cell)

\* A cell constructed with a pre_load that fails validation, its fetch in flight.
C26_Witness ==
    /\ op.name = "constructor"
    /\ params.pre_load # Undefined
    /\ ~data_valid(cell, params.pre_load)
    /\ InFlight(cell)

\* C27.  A cell that the cache no longer holds (evicted, or replaced under its
\* key) is detached: every step of the promise chain of its fetch (the closure's
\* promise fulfilled or rejected, the .then callback, the .finally callback)
\* leaves the cache as it is: the same cells under the same keys in the same
\* recency order, each with its data and expiry.  Checked under PromotionSpec.
C27_DetachedCompletionLeavesCache ==
    [][(detached' # detached /\ threads' # threads) =>
          ~(MFetchResolve \/ MFetchReject \/ MFetchThen \/ MFetchFinally)]_vars

\* The fetch of a cell outside the cache has completed with a value, which the
\* .then callback has stored in that cell, while the cell's key is stored again.
C27_Witness ==
    \E o \in BagToSet(detached) :
        /\ o.fetch.state = "updated"
        /\ o.ttl.data # Undefined
        /\ lru_has(threads, o.id)

\* C28.  Construction error.  A complete-tier fetch whose upstream thread has no
\* messages is a rejected fetch: the closure's promise is never fulfilled with
\* such a thread, the cell is left as it was when the promise rejects and, but
\* for _fetching being cleared, when the .finally callback runs, so a cell
\* without data and expiry stays without them, and every get_full call
\* suspended on the promise goes on with the rejection.
\* Checked under MailboxSpec.
C28_EmptyThreadRejects ==
    [][/\ \A l \in Objects :
            (isFull(l.obj.tier) /\ l.obj.fetch.messages = 0) =>
                l.obj.fetch.state = "rejected"
       /\ \A i \in DOMAIN threads :
            (/\ i \in DOMAIN threads'
             /\ threads'[i].id = threads[i].id
             /\ isFull(threads[i].tier)
             /\ isFull(threads'[i].tier)) =>
                /\ (/\ threads[i].fetch.state = "pending"
                    /\ threads'[i].fetch.messages = 0) =>
                       /\ threads'[i].fetch.state = "rejected"
                       /\ threads'[i].ttl = threads[i].ttl
                /\ (/\ threads[i].fetch.state = "rejected"
                    /\ threads[i].fetch.messages = 0
                    /\ threads'[i].fetch.state = "none") =>
                       /\ threads'[i].ttl = [threads[i].ttl EXCEPT !.fetching = Undefined]
                       /\ threads'[i].susp.ready =
                              threads[i].susp.ready
                                  \o [j \in 1..threads[i].susp.waiting |->
                                          [ok |-> FALSE, value |-> Undefined]]]_vars

\* The fetch of a stored cell without data has rejected on a thread without
\* messages, with a get_thread call blocked on it.
C28_Witness ==
    \E i \in DOMAIN threads :
        /\ threads[i].fetch.state = "rejected"
        /\ threads[i].fetch.messages = 0
        /\ threads[i].fetch.waiters > 0
        /\ threads[i].ttl.data = Undefined
        /\ threads[i].ttl.expiry = Undefined

\* C29.  get_thread on a key that is stored is a hit: it makes no new cell, the
\* cache holds the same cells under the same keys, the other keys keep their
\* order and the key becomes the most recently used one.  The cell under the key
\* is the same one, with the data and expiry it had, and the call's result is
\* that cell's get_data: its data when the status is fresh, and otherwise the
\* promise of its fetch, which is invoked only when none is in flight.
\* Checked under LruSpec.
C29_GetOnPresentKey ==
    [][(op'.name = "get_thread" /\ ~op'.ret /\ now' = now /\ GetThread) =>
          LET k == op'.arg
              pre == lru_peek(threads, k)
              post == lru_peek(threads', k)
              s == status(pre.ttl, now)
          IN lru_has(threads, k) =>
                /\ ~op'.ret
                /\ detached' = detached
                /\ Len(threads') = Len(threads)
                /\ lru_without(threads', k) = lru_without(threads, k)
                /\ threads'[Len(threads')].id = k
                /\ post.tier = pre.tier
                /\ post.susp = pre.susp
                /\ post.ttl.data = pre.ttl.data
                /\ post.ttl.expiry = pre.ttl.expiry
                /\ OutstandingIn(threads', detached', k) =
                       Outstanding(k)
                           + (IF s.fetch /\ pre.ttl.fetching = Undefined THEN 1 ELSE 0)
                /\ op'.mode = (IF s.fresh THEN "cached" ELSE "blocked")
                /\ op'.mode = "cached" => op'.value = pre.ttl.data]_vars

\* A get_thread call was served the data of the cell stored under its key, which
\* is now more recently used than the other key of the cache.
C29_Witness ==
    /\ op.name = "get_thread" /\ ~op.ret /\ op.mode = "cached"
    /\ Len(threads) = 2
    /\ threads[2].id = op.arg
    /\ threads[2].ttl.data = op.value
    /\ threads[1].ttl.data # Undefined

\* C30 as stated: the fetch_callback passed to get_data is invoked only if new
\* data is fetched.  A call served from the cache without a fetch attaches it to
\* nothing; a call that started or joined a fetch attaches it once to that
\* fetch's promise, so it is invoked at most once and after the fetch completes;
\* and it is invoked only when the fetch produced a value that the .then
\* callback's update stored in the cell.  Checked under CallbackSpec.
C30_CallbackOnlyOnNewData ==
    [][/\ GetDataCallback =>
            IF status(cell, now).fetch
            THEN \E f \in fetches' :
                    /\ f.id = cell'.fetching
                    /\ f.state # "none"
                    /\ \A g \in fetches' : g.id # f.id => g \in fetches
                    /\ \A g \in fetches :
                           g.id = f.id => f.callbacks = g.callbacks + 1
                    /\ f.id \notin Ids(fetches) => f.callbacks = 1
            ELSE fetches' = fetches
       /\ \A f \in fetches :
            (f.id \notin Ids(fetches') /\ op'.name = "fetch_finally") =>
                /\ op'.called <= f.callbacks
                /\ op'.called > 0 => f.stored]_vars

\* C31.  invalidate() and refresh_expiry() change only the expiry: the cell's
\* data, its _fetching promise and its other fields are as before, and no
\* invocation of the fetch closure is started, settled or joined.  invalidate
\* sets the expiry to 0 and refresh_expiry to now + max_age.  Checked under Spec.
C31_OnlyExpiryChanges ==
    [][(op'.name \in {"invalidate", "refresh_expiry"}) =>
          /\ cell' = [cell EXCEPT !.expiry = cell'.expiry]
          /\ fetches' = fetches
          /\ now' = now
          /\ cell'.expiry = IF op'.name = "invalidate" THEN 0 ELSE now + cell.max_age]_vars

\* invalidate() was called on a cell that holds data while a fetch is in flight;
\* the data and the fetch are still there.
C31_Witness ==
    /\ op.name = "invalidate"
    /\ cell.expiry = 0
    /\ cell.data # Undefined
    /\ InFlight(cell)
    /\ fetches # {}

\* C32.  Liveness of the cell, every invocation of the fetch closure settling.
\* A fetch in flight leads to _fetching being cleared, and get_data promises
\* waiting on a fetch lead to their being settled.  When the promises waiting on
\* a fetch are settled (the step of the .finally callback), _fetching is clear
\* already, so a get_data call made next that needs a fetch invokes the fetch
\* closure anew instead of joining the settled promise.  Checked under LiveSpec.
C32_CellLiveness ==
    /\ InFlight(cell) ~> ~InFlight(cell)
    /\ (\E f \in fetches : f.waiters > 0) ~> (\A f \in fetches : f.waiters = 0)
    /\ [](op.name = "fetch_finally" => ~InFlight(cell))
    /\ [][(/\ op.name = "fetch_finally"
           /\ op'.name = "get_data"
           /\ status(cell, now).fetch) =>
              /\ op'.ret
              /\ \E f \in fetches' : f.id = cell'.fetching /\ f.state = "pending"]_vars

\* The promises of two get_data calls that waited on a fetch have been settled
\* and _fetching is clear.
C32_Witness ==
    /\ op.name = "fetch_finally"
    /\ op.arg >= 2
    /\ ~InFlight(cell)
    /\ fetches = {}

\* C33.  A get_data call whose status is fresh and fetch starts or joins a fetch
\* in the background and resolves its promise at once with the data the cell
\* holds at the call: the promise does not wait on the fetch, and the call
\* leaves data and expiry alone.  A fetch that rejects, or whose result the
\* validator refuses, leaves the cell's data and expiry as they are in each of
\* its steps.  Checked under Spec.
C33_ServedFromCacheWhileFetching ==
    [][/\ (/\ op'.name = "get_data"
           /\ status(cell, now).fresh
           /\ status(cell, now).fetch) =>
              /\ op'.mode = "cached"
              /\ op'.value = cell.data
              /\ cell'.data = cell.data
              /\ cell'.expiry = cell.expiry
              /\ InFlight(cell')
              /\ op'.arg = cell'.fetching
              /\ \A f \in fetches' :
                     /\ f.id = cell'.fetching /\ f.id \notin Ids(fetches) => f.waiters = 0
                     /\ \A g \in fetches : g.id = f.id => g.waiters = f.waiters
       /\ (\/ op'.name = "fetch_reject"
           \/ op'.name = "fetch_then" /\ ~op'.ret
           \/ op'.name = "fetch_finally" /\ (~op'.ret \/ \E f \in fetches : ~f.stored)) =>
              /\ cell'.data = cell.data
              /\ cell'.expiry = cell.expiry]_vars

\* A get_data call was served the cell's data and has started a fetch in the
\* background, on which no promise waits.
C33_Witness ==
    /\ op.name = "get_data" /\ op.mode = "cached" /\ op.ret
    /\ op.value = cell.data /\ cell.data # Undefined
    /\ InFlight(cell)
    /\ \E f \in fetches : f.id = cell.fetching /\ f.waiters = 0 /\ f.state = "pending"

\* C34.  Write ordering.  A value is accepted when update, called directly or by
\* the .then callback of a fetch, finds it valid.  The step that accepts a value
\* makes it the cell's data and sets the expiry to the time of that step plus
\* max_age, whenever the fetch was started and whatever the cell held; no other
\* step changes the data.  So a fetch that resolves with a valid w after
\* update(v) leaves data w, and the data is always the value accepted last.
\* Checked under Spec.
C34_LastAcceptedValueWins ==
    [][IF op'.name \in {"update", "fetch_then"} /\ op'.ret
       THEN /\ data_valid(cell, op'.arg)
            /\ cell'.data = op'.arg
            /\ cell'.expiry = now + cell.max_age
       ELSE cell'.data = cell.data]_vars

\* update(v) was accepted while the fetch in flight has resolved with a valid
\* value other than v, which its .then callback is about to store.
C34_Witness ==
    /\ op.name = "update" /\ op.ret
    /\ cell.data = op.arg
    /\ \E f \in fetches :
          /\ f.id = cell.fetching
          /\ f.state = "fulfilled"
          /\ data_valid(cell, f.result)
          /\ f.result # op.arg


(***************************************************************************)
(* Claims about DefferedParse and MessageBody.                              *)
(***************************************************************************)
\* An operation has acted on part p in the step.
ActedOn(p) == parse_op'[p] # parse_op[p] \/ body'[p] # body[p]

\* The last operation on part p assigned a raw form.
Assigned(o) == o.name = "set" \/ (o.name = "new" /\ o.arg # Undefined)

\* C35: the parser is invoked at most once per raw assignment, on the first read
\* after it: a read that follows an assignment invokes the parser on the raw form
\* assigned, returns what the parser made of it and unsets the raw form; a read
\* that follows a read returns the same value without invoking the parser.
C35_ParsedOncePerAssignment ==
    [][\A p \in Parts :
          (ActedOn(p) /\ parse_op'[p].name = "get") =>
              /\ Assigned(parse_op[p]) =>
                    /\ parse_op'[p].invoked
                    /\ parse_op'[p].ret = parser(p, parse_op[p].arg)
                    /\ body'[p]._raw = Undefined
              /\ parse_op[p].name = "get" =>
                    /\ ~parse_op'[p].invoked
                    /\ parse_op'[p].ret = parse_op[p].ret
                    /\ body'[p] = body[p]]_vars

\* C35 witness: a part was assigned again after it had been read, and has been
\* read twice since: the second read returned the value parsed from the last raw
\* form without parsing.
C35_Witness ==
    \E p \in Parts :
        /\ parse_op[p].name = "get"
        /\ ~parse_op[p].invoked
        /\ parse_op[p].ret = parser(p, 2)
        /\ body[p] = [_raw |-> Undefined, _value |-> parser(p, 2), _parsed |-> "true"]

\* C36 as stated: has_value is true if and only if a raw value has been assigned:
\* it is so after construction, and only an assignment changes it.
C36_HasValueIffAssigned ==
    /\ \A p \in Parts :
          parse_op[p].name = "new" => (has_value(body[p]) <=> parse_op[p].arg # Undefined)
    /\ [][\A p \in Parts :
             has_value(body'[p]) # has_value(body[p]) => parse_op'[p].name = "set"]_vars


(***************************************************************************)
(* Claims about getOAuthClient.                                            *)
(***************************************************************************)
\* Nothing of the listener is left to run: the callback of listen has run, no
\* handler is unfinished and the timer is not waiting.
Quiescent ==
    /\ oauth.server # "starting"
    /\ oauth.handlers = EmptyBag
    /\ oauth.timer # "armed"

\* C37 as stated: the listener always terminates: once nothing of it is left to
\* run the server is destroyed and the promise is settled, whatever the outcome.
C37_ListenerTerminates ==
    Quiescent => (oauth.server = "destroyed" /\ oauth.promise # "pending")

=============================================================================
